---- MODULE Spec2Model ----
(***************************************************************************)
(* Model of the PDF stamper pipeline of app.py: read_excel_lookup,         *)
(* extract_candidates, the page classification loop, key_sort, the sheet   *)
(* composition loop and the final report of annotate_pdf_web.              *)
(*                                                                         *)
(* A Python str is a sequence of characters.  A character is a TLA+ string *)
(* holding that one character, or its code point name ("U+0142") when it   *)
(* is not ASCII.  Python's None is the value None.                         *)
(***************************************************************************)
EXTENDS Integers, Sequences, FiniteSets, TLC

(* None: no string equals it *)
None == <<"None">>

(* ------------------------------------------------------------------ *)
(* Characters                                                          *)
(* ------------------------------------------------------------------ *)

NBSP == "U+00A0"
NNBSP == "U+202F"
THINSP == "U+2009"

Digits == {"0", "1", "2", "3", "4", "5", "6", "7", "8", "9"}

LowerLetters ==
    <<"a", "b", "c", "d", "e", "f", "g", "h", "i", "j", "k", "l", "m",
      "n", "o", "p", "q", "r", "s", "t", "u", "v", "w", "x", "y", "z">>

UpperLetters ==
    <<"A", "B", "C", "D", "E", "F", "G", "H", "I", "J", "K", "L", "M",
      "N", "O", "P", "Q", "R", "S", "T", "U", "V", "W", "X", "Y", "Z">>

Range(s) == {s[i] : i \in DOMAIN s}

(* Polish letters: code point -> the letter left by NFD decomposition with
   the combining marks (category Mn) removed.  U+0141/U+0142 (L/l with
   stroke) have no decomposition: the code replaces them by hand. *)
PolishDecomposed ==
    [c \in {"U+0105", "U+0107", "U+0119", "U+0144", "U+00F3", "U+015B",
            "U+017A", "U+017C", "U+0104", "U+0106", "U+0118", "U+0143",
            "U+00D3", "U+015A", "U+0179", "U+017B"} |->
        CASE c = "U+0105" -> "a" [] c = "U+0107" -> "c" [] c = "U+0119" -> "e"
          [] c = "U+0144" -> "n" [] c = "U+00F3" -> "o" [] c = "U+015B" -> "s"
          [] c = "U+017A" -> "z" [] c = "U+017C" -> "z" [] c = "U+0104" -> "A"
          [] c = "U+0106" -> "C" [] c = "U+0118" -> "E" [] c = "U+0143" -> "N"
          [] c = "U+00D3" -> "O" [] c = "U+015A" -> "S" [] c = "U+0179" -> "Z"
          [] c = "U+017B" -> "Z"]

(* \s of a str pattern, str.strip() and str.isspace(): Unicode white space *)
Whitespace == {" ", "\t", "\n", "\r", "U+00A0", "U+202F", "U+2009"}

(* \w of a str pattern: letters, digits and the underscore *)
WordChars ==
    {"a", "b", "c", "d", "e", "f", "g", "h", "i", "j", "k", "l", "m",
     "n", "o", "p", "q", "r", "s", "t", "u", "v", "w", "x", "y", "z",
     "A", "B", "C", "D", "E", "F", "G", "H", "I", "J", "K", "L", "M",
     "N", "O", "P", "Q", "R", "S", "T", "U", "V", "W", "X", "Y", "Z",
     "0", "1", "2", "3", "4", "5", "6", "7", "8", "9", "_", "U+0105", "U+0107",
     "U+0119", "U+0144", "U+00F3", "U+015B", "U+017A", "U+017C", "U+0104", "U+0106", "U+0118", "U+0143", "U+00D3", "U+015A", "U+0179",
     "U+017B", "U+0141", "U+0142"}

IsDigitCh(c) == c \in Digits

(* str.isdigit(): not empty and every character a digit *)
isdigit(s) == Len(s) > 0 /\ \A k \in 1..Len(s) : s[k] \in Digits

SetMin(S) == CHOOSE x \in S : \A y \in S : x <= y
SetMax(S) == CHOOSE x \in S : \A y \in S : x >= y

(* str.strip() *)
strip(s) ==
    LET keep == {k \in 1..Len(s) : s[k] \notin Whitespace}
    IN  IF keep = {} THEN <<>> ELSE SubSeq(s, SetMin(keep), SetMax(keep))

(* str.lower() / str.upper() on the letters of the model's alphabet *)
LowerOf == [c \in Range(UpperLetters) |->
               LowerLetters[CHOOSE k \in 1..26 : UpperLetters[k] = c]]

UpperOf == [c \in Range(LowerLetters) |->
               UpperLetters[CHOOSE k \in 1..26 : LowerLetters[k] = c]]

lower(c) == IF c \in DOMAIN LowerOf THEN LowerOf[c] ELSE c

upper(c) == IF c \in DOMAIN UpperOf THEN UpperOf[c] ELSE c

(* "{}".format(n) of a non-negative int *)
RECURSIVE IntToStr(_)
IntToStr(n) ==
    LET d == <<"0", "1", "2", "3", "4", "5", "6", "7", "8", "9">>[(n % 10) + 1]
    IN  IF n < 10 THEN <<d>> ELSE Append(IntToStr(n \div 10), d)

DigitValue(c) == CHOOSE v \in 0..9 : IntToStr(v) = <<c>>

(* int(x) of a digit string *)
RECURSIVE StrToInt(_)
StrToInt(s) ==
    IF Len(s) = 0 THEN 0
    ELSE 10 * StrToInt(SubSeq(s, 1, Len(s) - 1)) + DigitValue(s[Len(s)])

(* ord(c) on the printable ASCII characters; the non-ASCII characters of the
   model sort after them, by code point *)
Ascii ==
    <<" ", "!", "QUOTE", "#", "$", "%", "&", "'", "(", ")", "*", "+", ",", "-",
      ".", "/", "0", "1", "2", "3", "4", "5", "6", "7", "8", "9", ":", ";",
      "<", "=", ">", "?", "@", "A", "B", "C", "D", "E", "F", "G", "H", "I",
      "J", "K", "L", "M", "N", "O", "P", "Q", "R", "S", "T", "U", "V", "W",
      "X", "Y", "Z", "[", "BACKSLASH", "]", "^", "_", "BACKTICK", "a", "b", "c", "d", "e",
      "f", "g", "h", "i", "j", "k", "l", "m", "n", "o", "p", "q", "r", "s",
      "t", "u", "v", "w", "x", "y", "z", "{", "|", "}", "~">>

ord(c) ==
    IF \E k \in 1..Len(Ascii) : Ascii[k] = c
    THEN 31 + (CHOOSE k \in 1..Len(Ascii) : Ascii[k] = c)
    ELSE CASE c = "\t" -> 9 [] c = "\n" -> 10 [] c = "\r" -> 13
           [] c = NBSP -> 160 [] c = "U+00D3" -> 211 [] c = "U+00F3" -> 243
           [] c = "U+0104" -> 260 [] c = "U+0105" -> 261
           [] c = "U+0106" -> 262 [] c = "U+0107" -> 263
           [] c = "U+0118" -> 280 [] c = "U+0119" -> 281
           [] c = "U+0141" -> 321 [] c = "U+0142" -> 322
           [] c = "U+0143" -> 323 [] c = "U+0144" -> 324
           [] c = "U+015A" -> 346 [] c = "U+015B" -> 347
           [] c = "U+0179" -> 377 [] c = "U+017A" -> 378
           [] c = "U+017B" -> 379 [] c = "U+017C" -> 380
           [] c = THINSP -> 8201 [] c = NNBSP -> 8239

(* a < b for Python str: lexicographic by code point *)
RECURSIVE StrLess(_, _)
StrLess(a, b) ==
    IF Len(b) = 0 THEN FALSE
    ELSE IF Len(a) = 0 THEN TRUE
    ELSE IF a[1] # b[1] THEN ord(a[1]) < ord(b[1])
    ELSE StrLess(Tail(a), Tail(b))

(* ------------------------------------------------------------------ *)
(* strip_diacritics                                                    *)
(* ------------------------------------------------------------------ *)

strip_diacritics_char(c) ==
    IF c = "U+0142" THEN "l"
    ELSE IF c = "U+0141" THEN "L"
    ELSE IF c \in DOMAIN PolishDecomposed THEN PolishDecomposed[c]
    ELSE c

strip_diacritics(s) == [k \in 1..Len(s) |-> strip_diacritics_char(s[k])]

(* ------------------------------------------------------------------ *)
(* read_excel_lookup                                                   *)
(* A worksheet is the sequence of its data rows (row 2 onward); a row  *)
(* is <<z, il, pr, uw, dok>>, each a cell value: None, or the text     *)
(* str(value) gives.  The header row names all five columns.           *)
(* ------------------------------------------------------------------ *)

(* "" if v is None else str(v).strip() *)
cell_text(v) == IF v = None THEN <<>> ELSE strip(v)

SplitChars == {"+", ";", ",", "/", " ", "\t", "\n", "\r", "U+00A0", "U+202F", "U+2009"}

RECURSIVE DropSplitChars(_)
DropSplitChars(s) ==
    IF s # <<>> /\ s[1] \in SplitChars THEN DropSplitChars(Tail(s)) ELSE s

(* re.split(r"[+;,/\s]+", s): the pieces between the runs of separators,
   the empty pieces at the ends included *)
RECURSIVE re_split_from(_, _)
re_split_from(s, cur) ==
    IF s = <<>> THEN <<cur>>
    ELSE IF s[1] \in SplitChars
         THEN <<cur>> \o re_split_from(DropSplitChars(s), <<>>)
         ELSE re_split_from(Tail(s), Append(cur, s[1]))

re_split(s) == re_split_from(s, <<>>)

NonBlank(p) == strip(p) # <<>>

(* parts = [p.strip() for p in re.split(...) if p.strip()] *)
order_parts(z) ==
    LET kept == SelectSeq(re_split(z), NonBlank)
    IN  [k \in 1..Len(kept) |-> strip(kept[k])]

(* Faulty variant of DictPut: d.setdefault(k, v), the first write wins. *)
DictPutIfAbsent(d, k, v) == d @@ (k :> v)

(* d[k] = v *)
DictPut(d, k, v) == (k :> v) @@ d

(* the inner loop: for p in parts *)
RECURSIVE add_parts(_, _, _)
add_parts(acc, parts, rec) ==
    IF parts = <<>> THEN acc
    ELSE LET p2 == SelectSeq(parts[1], IsDigitCh)
         IN  add_parts(IF isdigit(p2)
                       THEN [lookup |-> DictPut(acc.lookup, p2, rec),
                             all_nums |-> acc.all_nums \cup {p2}]
                       ELSE acc,
                       Tail(parts), rec)

(* the outer loop: for row in range(2, ws.max_row + 1) *)
RECURSIVE add_rows(_, _)
add_rows(acc, rows) ==
    IF rows = <<>> THEN acc
    ELSE LET z   == cell_text(rows[1][1])
             il  == cell_text(rows[1][2])
             pr  == cell_text(rows[1][3])
             uw  == cell_text(rows[1][4])
             dok == cell_text(rows[1][5])
         IN  add_rows(add_parts(acc, order_parts(z), <<z, il, pr, uw, dok>>),
                      Tail(rows))

read_excel_lookup(rows) == add_rows([lookup |-> <<>>, all_nums |-> {}], rows)

(* ------------------------------------------------------------------ *)
(* extract_candidates                                                  *)
(* ------------------------------------------------------------------ *)

(* [\s\-NBSP NNBSP THINSP] *)
SepChars == {" ", "\t", "\n", "\r", "U+00A0", "U+202F", "U+2009", "-"}

NotSep(c) == c \notin SepChars

normalize_digits(s) == SelectSeq(s, NotSep)

(* \b between positions q-1 and q *)
WordBoundary(text, q) ==
    LET before == q > 1 /\ text[q - 1] \in WordChars
        after  == q <= Len(text) /\ text[q] \in WordChars
    IN  before # after

(* the number of digits from position p on, counted up to cap *)
RECURSIVE DigitRun(_, _, _)
DigitRun(text, p, cap) ==
    IF cap = 0 \/ p > Len(text) \/ text[p] \notin Digits THEN 0
    ELSE 1 + DigitRun(text, p + 1, cap - 1)

(* \b\d{4,8}\b at p: the position after the match, 0 when there is none.
   The greedy \d{4,8} gives digits back until \b holds. *)
match_normal(text, p) ==
    LET run == DigitRun(text, p, 8)
        ks  == {k \in 4..8 : k <= run /\ WordBoundary(text, p + k)}
    IN  IF WordBoundary(text, p) /\ ks # {} THEN p + SetMax(ks) ELSE 0

(* (?:\d[sep]?){4,9}(?!\d) from pos with k repetitions done, as the
   backtracking matcher tries it: one more repetition first (with the
   separator, then without), the lookahead last *)
RECURSIVE fancy_from(_, _, _)
fancy_from(text, pos, k) ==
    LET more ==
          IF k < 9 /\ pos <= Len(text) /\ text[pos] \in Digits
          THEN LET withSep ==
                     IF pos + 1 <= Len(text) /\ text[pos + 1] \in SepChars
                     THEN fancy_from(text, pos + 2, k + 1)
                     ELSE 0
               IN  IF withSep # 0 THEN withSep
                   ELSE fancy_from(text, pos + 1, k + 1)
          ELSE 0
    IN  IF more # 0 THEN more
        ELSE IF k >= 4 /\ ~(pos <= Len(text) /\ text[pos] \in Digits)
             THEN pos
             ELSE 0

(* (?<!\d)(?:\d[sep]?){4,9}(?!\d) at p *)
match_fancy(text, p) ==
    IF p > 1 /\ text[p - 1] \in Digits THEN 0 ELSE fancy_from(text, p, 0)

(* re.findall of a pattern without groups: the matches left to right, the
   scan resuming after each match *)
RECURSIVE findall_normal(_, _)
findall_normal(text, p) ==
    IF p > Len(text) THEN <<>>
    ELSE LET e == match_normal(text, p)
         IN  IF e = 0 THEN findall_normal(text, p + 1)
             ELSE <<SubSeq(text, p, e - 1)>> \o findall_normal(text, e)

RECURSIVE findall_fancy(_, _)
findall_fancy(text, p) ==
    IF p > Len(text) THEN <<>>
    ELSE LET e == match_fancy(text, p)
         IN  IF e = 0 THEN findall_fancy(text, p + 1)
             ELSE <<SubSeq(text, p, e - 1)>> \o findall_fancy(text, e)

(* a literal word at p, flags=re.I *)
LiteralAt(text, p, word) ==
    /\ p + Len(word) - 1 <= Len(text)
    /\ \A k \in 1..Len(word) : lower(text[p + k - 1]) = word[k]

(* the length of the run of characters of class from p on, up to cap *)
RECURSIVE ClassRun(_, _, _, _)
ClassRun(text, p, class, cap) ==
    IF cap = 0 \/ p > Len(text) \/ text[p] \notin class THEN 0
    ELSE 1 + ClassRun(text, p + 1, class, cap - 1)

(* [0-9\s NBSP NNBSP THINSP \-] *)
SoGroupChars ==
    {"0", "1", "2", "3", "4", "5", "6", "7", "8", "9",
     " ", "\t", "\n", "\r", "U+00A0", "U+202F", "U+2009", "-"}

(* [\s:] *)
SoLabelTail == {" ", "\t", "\n", "\r", "U+00A0", "U+202F", "U+2009", ":"}

(* Sales\s*[\r\n ]*Order[\s:]*([0-9 sep]{4,12}) at p: <<start, end>> of
   group 1 (end exclusive), <<0, 0>> when there is no match.  [\s:]* is
   greedy and gives characters back until the group finds its 4. *)
match_so(text, p) ==
    IF ~LiteralAt(text, p, <<"s", "a", "l", "e", "s">>) THEN <<0, 0>>
    ELSE LET q  == p + 5 + ClassRun(text, p + 5, Whitespace, Len(text))
         IN  IF ~LiteralAt(text, q, <<"o", "r", "d", "e", "r">>) THEN <<0, 0>>
             ELSE LET r0 == q + 5
                      r1 == r0 + ClassRun(text, r0, SoLabelTail, Len(text))
                      rs == {r \in r0..r1 :
                               ClassRun(text, r, SoGroupChars, 12) >= 4}
                 IN  IF rs = {} THEN <<0, 0>>
                     ELSE LET r == SetMax(rs)
                          IN  <<r, r + ClassRun(text, r, SoGroupChars, 12)>>

(* [normalize_digits(m.group(1)) for m in re.finditer(...)] *)
RECURSIVE finditer_so(_, _)
finditer_so(text, p) ==
    IF p > Len(text) THEN <<>>
    ELSE LET g == match_so(text, p)
         IN  IF g[2] = 0 THEN finditer_so(text, p + 1)
             ELSE <<normalize_digits(SubSeq(text, g[1], g[2] - 1))>>
                      \o finditer_so(text, g[2])

MIN_CAND_LEN == 4
MAX_CAND_LEN == 8

IsCandidate(c) == isdigit(c) /\ MIN_CAND_LEN <= Len(c) /\ Len(c) <= MAX_CAND_LEN

(* Faulty variant of first_seen: keeps every match, repeated or not. *)
keep_all(cands, out) == out \o cands

(* out, seen = [], set(); for c in cands: if c not in seen: ... *)
RECURSIVE first_seen(_, _)
first_seen(cands, out) ==
    IF cands = <<>> THEN out
    ELSE first_seen(Tail(cands),
                    IF cands[1] \in Range(out) THEN out
                    ELSE Append(out, cands[1]))

candidate_matches(text) ==
    LET normal == findall_normal(text, 1)
        found  == findall_fancy(text, 1)
        fancy  == [k \in 1..Len(found) |-> normalize_digits(found[k])]
        so     == finditer_so(text, 1)
    IN  normal \o fancy \o so

extract_candidates(text) ==
    first_seen(SelectSeq(candidate_matches(text), IsCandidate), <<>>)

(* ------------------------------------------------------------------ *)
(* adaptive_crop_extra                                                 *)
(* Lengths are in units of 1/36 mm: 1 mm is 36 and 10 points are 127.  *)
(* ------------------------------------------------------------------ *)

mm == 36
TEN_POINTS == 127

LOW_TEXT_LINES == 4
SHORT_TEXT_CHARS == 80
EXTRA_CROP_LR == 14
EXTRA_CROP_T == 18
EXTRA_CROP_B == 28

LineBreaks == {"\n", "\r"}

(* the lines of text.splitlines() that are not blank, counted from
   position p on: each holds a character that is not white space *)
RECURSIVE nonblank_lines(_, _, _)
nonblank_lines(text, p, inLine) ==
    IF p > Len(text) THEN 0
    ELSE IF text[p] \in LineBreaks THEN nonblank_lines(text, p + 1, FALSE)
    ELSE IF text[p] \in Whitespace \/ inLine
         THEN nonblank_lines(text, p + 1, inLine)
         ELSE 1 + nonblank_lines(text, p + 1, TRUE)

is_sparse(text) ==
    nonblank_lines(text, 1, FALSE) <= LOW_TEXT_LINES \/ Len(text) < SHORT_TEXT_CHARS

(* (left, right, top, bottom) *)
adaptive_crop_extra(text) ==
    IF is_sparse(text)
    THEN <<EXTRA_CROP_LR * mm, EXTRA_CROP_LR * mm, EXTRA_CROP_T * mm,
           EXTRA_CROP_B * mm>>
    ELSE <<0, 0, 0, 0>>

(* ------------------------------------------------------------------ *)
(* make_overlay, make_summary_page                                     *)
(* A rendered page is modelled by the strings drawn on it.             *)
(* ------------------------------------------------------------------ *)

UpperStr(s) == [k \in 1..Len(s) |-> upper(s[k])]

(* the strings drawn at the right (header, footer) and at the left (DOK
   over UWAGI); make_overlay is called with *page_meta[batch[0]], that is
   (header, footer, uwagi, dok) *)
make_overlay(header, footer, uwagi, dok) ==
    [right |-> <<header>> \o (IF footer # <<>> THEN <<footer>> ELSE <<>>),
     left  |-> (IF dok # <<>>
                THEN <<<<"D", "O", "K", ":", " ">> \o strip_diacritics(dok)>> ELSE <<>>)
               \o (IF uwagi # <<>>
                   THEN <<<<"U", "W", "A", "G", "I", ":", " ">> \o UpperStr(strip_diacritics(uwagi))>>
                   ELSE <<>>)]

SUMMARY_FIRST_Y == 122
SUMMARY_NEXT_Y == 60
SUMMARY_LINE == 14
SUMMARY_BOTTOM == 60

(* the loop over missing_from_pdf: the lines of the page being drawn, then
   the pages already shown.  y is kept in tenths of a unit, where one point
   is TEN_POINTS. *)
RECURSIVE summary_lines(_, _, _, _, _)
summary_lines(nums, y, page, shown, H) ==
    IF nums = <<>> THEN Append(shown, page)
    ELSE LET y2 == y - SUMMARY_LINE * TEN_POINTS
         IN  IF y2 < SUMMARY_BOTTOM * TEN_POINTS
             THEN summary_lines(Tail(nums),
                                10 * H - SUMMARY_NEXT_Y * TEN_POINTS, <<>>,
                                Append(shown, Append(page, nums[1])), H)
             ELSE summary_lines(Tail(nums), y2, Append(page, nums[1]),
                                shown, H)

(* the pages of the report, each the identifiers (or the placeholder) drawn
   on it; c.save() shows the page being drawn *)
make_summary_page(H, missing_from_pdf) ==
    LET pages ==
          IF missing_from_pdf = <<>> THEN << <<<<"(", "b", "r", "a", "k", ")">>>> >>
          ELSE summary_lines(missing_from_pdf,
                             10 * H - SUMMARY_FIRST_Y * TEN_POINTS, <<>>,
                             <<>>, H)
    IN  [k \in 1..Len(pages) |-> [kind |-> "summary", lines |-> pages[k]]]

(* ------------------------------------------------------------------ *)
(* annotate_pdf_web: classification of one page                        *)
(* ------------------------------------------------------------------ *)

(* Faulty variant of first_known: looks at the first candidate only. *)
first_known_head(cands, excel_numbers) ==
    IF cands # <<>> /\ cands[1] \in excel_numbers THEN cands[1] ELSE None

(* next((n for n in cands if n in excel_numbers), None) *)
RECURSIVE first_known(_, _)
first_known(cands, excel_numbers) ==
    IF cands = <<>> THEN None
    ELSE IF cands[1] \in excel_numbers THEN cands[1]
    ELSE first_known(Tail(cands), excel_numbers)

NO_ORDER_PREFIX == <<"_", "N", "O", "_", "O", "R", "D", "E", "R", "_">>
HEADER_ORDER == <<"Z", "L", "E", "C", "E", "N", "I", "E", ":", " ">>
HEADER_COMBINED == <<"Z", "L", "E", "C", "E", "N", "I", "A", " ", "(", "l", "a", "c", "z", "o", "n", "e", ")", ":", " ">>
HEADER_NOT_FOUND == <<"(", "n", "i", "e", " ", "z", "n", "a", "l", "e", "z", "i", "o", "n", "o", " ", "n", "u", "m", "e", "r", "u", " ", "z", "l", "e", "c", "e", "n", "i", "a", " ", "n", "a", " ", "t", "e", "j", " ", "s", "t", "r", "o", "n", "i", "e", ")">>
FOOTER_NO_DATA == <<"(", "b", "r", "a", "k", " ", "d", "a", "n", "y", "c", "h", " ", "w", " ", "E", "x", "c", "e", "l", "u", ")">>

footer_of(il, pr) ==
    <<"i", "l", "o", "s", "c", " ", "p", "a", "l", "e", "t", ":", " ">> \o strip_diacritics(il) \o <<" ", "|", " ", "p", "r", "z", "e", "w", "o", "z", "n", "i", "k", ":", " ">>
        \o strip_diacritics(pr)

(* the body of the page loop from picked_excel on: the group key and the
   page's (header, footer, uw, dok) *)
classify_page(cands, i, lookup, excel_numbers) ==
    LET picked_excel == first_known(cands, excel_numbers)
        picked_any   == IF picked_excel # None THEN picked_excel
                        ELSE IF cands # <<>> THEN cands[1] ELSE None
        mapped       == IF picked_excel # None /\ picked_excel \in DOMAIN lookup
                        THEN lookup[picked_excel] ELSE None
    IN  IF mapped # None
        THEN LET z_full == mapped[1]
             IN  [key  |-> z_full,
                  meta |-> <<(IF "+" \in Range(z_full)
                              THEN HEADER_COMBINED ELSE HEADER_ORDER)
                                 \o strip_diacritics(z_full),
                             footer_of(mapped[2], mapped[3]),
                             mapped[4], mapped[5]>>]
        ELSE IF picked_any # None
        THEN [key  |-> picked_any,
              meta |-> <<HEADER_ORDER \o picked_any, FOOTER_NO_DATA, <<>>, <<>>>>]
        ELSE [key  |-> NO_ORDER_PREFIX \o IntToStr(i + 1),
              meta |-> <<HEADER_NOT_FOUND, <<>>, <<>>, <<>>>>]

(* The dict groups keeps its keys in the order they were first set: it is
   the sequence of its items [key, idxs]. *)
group_keys(groups) == [j \in 1..Len(groups) |-> groups[j].key]

groups_get(groups, key) ==
    groups[CHOOSE j \in 1..Len(groups) : groups[j].key = key].idxs

(* Faulty variant of groups_append: groups[key] = [i], which forgets the
   pages the group already holds. *)
groups_overwrite(groups, key, i) ==
    IF \E j \in 1..Len(groups) : groups[j].key = key
    THEN [j \in 1..Len(groups) |->
             IF groups[j].key = key
             THEN [key |-> key, idxs |-> <<i>>]
             ELSE groups[j]]
    ELSE Append(groups, [key |-> key, idxs |-> <<i>>])

(* groups.setdefault(key, []).append(i) *)
groups_append(groups, key, i) ==
    IF \E j \in 1..Len(groups) : groups[j].key = key
    THEN [j \in 1..Len(groups) |->
             IF groups[j].key = key
             THEN [key |-> key, idxs |-> Append(groups[j].idxs, i)]
             ELSE groups[j]]
    ELSE Append(groups, [key |-> key, idxs |-> <<i>>])

(* ------------------------------------------------------------------ *)
(* key_sort and sorted                                                 *)
(* ------------------------------------------------------------------ *)

(* re.findall(r"\d+", k) *)
RECURSIVE digit_runs(_, _)
digit_runs(k, p) ==
    IF p > Len(k) THEN <<>>
    ELSE LET n == DigitRun(k, p, Len(k))
         IN  IF n = 0 THEN digit_runs(k, p + 1)
             ELSE <<SubSeq(k, p, p + n - 1)>> \o digit_runs(k, p + n)

NO_DIGITS_PRIMARY == 1000000000

(* (group_flag, primary, k), for the excel_numbers of the call *)
key_sort(k, known) ==
    LET nums_str  == digit_runs(k, 1)
        has_excel == \E j \in 1..Len(nums_str) : nums_str[j] \in known
        primary   == IF nums_str = <<>> THEN NO_DIGITS_PRIMARY
                     ELSE SetMin({StrToInt(nums_str[j]) : j \in 1..Len(nums_str)})
    IN  <<IF has_excel THEN 1 ELSE 0, primary, k>>

(* a < b for the tuples key_sort returns *)
SortKeyLess(a, b) ==
    \/ a[1] < b[1]
    \/ a[1] = b[1] /\ a[2] < b[2]
    \/ a[1] = b[1] /\ a[2] = b[2] /\ StrLess(a[3], b[3])

(* sorted(groups.keys(), key=key_sort) *)
sorted_keys(keys, known) ==
    SortSeq(keys, LAMBDA a, b : SortKeyLess(key_sort(a, known), key_sort(b, known)))

(* ------------------------------------------------------------------ *)
(* annotate_pdf_web: one output sheet                                  *)
(* Lengths are whole units of 1/36 mm and a scale factor is a whole    *)
(* number of 1/SCALE_DEN: the floats' products are rounded down.       *)
(* ------------------------------------------------------------------ *)

SIDE_MARGIN_MM == 2
TOP_MARGIN_MM == 4
STAMP_BOTTOM_MM == 12
INTER_GAP_MM == 1
BASE_CROP_L == 6
BASE_CROP_R == 6
BASE_CROP_T == 8
BASE_CROP_B == 8
A4_WIDTH_MM == 210
A4_HEIGHT_MM == 297
SCALE_DEN == 1000

A4_W == A4_WIDTH_MM * mm
A4_H == A4_HEIGHT_MM * mm
margin_x == SIDE_MARGIN_MM * mm
top_margin == TOP_MARGIN_MM * mm
bot_stamp == STAMP_BOTTOM_MM * mm
gap == INTER_GAP_MM * mm
avail_w == A4_W - 2 * margin_x
avail_h == A4_H - top_margin - bot_stamp

Max2(a, b) == IF a >= b THEN a ELSE b

(* the first loop over the batch: (idx, cl, cr, ct, cb, s, dh) of a page *)
layout_item(idx, page) ==
    LET ex == adaptive_crop_extra(page.text)
        cl == BASE_CROP_L * mm + ex[1]
        cr == BASE_CROP_R * mm + ex[2]
        ct == BASE_CROP_T * mm + ex[3]
        cb == BASE_CROP_B * mm + ex[4]
        cw == Max2(TEN_POINTS, page.sw - cl - cr)
        ch == Max2(TEN_POINTS, page.sh - ct - cb)
    IN  [idx |-> idx, cl |-> cl, cr |-> cr, ct |-> ct, cb |-> cb,
         s  |-> (avail_w * SCALE_DEN) \div cw,
         dh |-> (avail_w * ch) \div cw]

RECURSIVE SumDh(_)
SumDh(items) == IF items = <<>> THEN 0 ELSE items[1].dh + SumDh(Tail(items))

(* min(1.0, avail_h / total_h) if total_h > 0 else 1.0, as <<num, den>> *)
down_factor(total_h) ==
    IF total_h > 0 /\ avail_h < total_h THEN <<avail_h, total_h>> ELSE <<1, 1>>

(* the second loop over the batch: each item scaled by down and placed
   under the one before, from y on *)
RECURSIVE place_items(_, _, _)
place_items(items, down, y) ==
    IF items = <<>> THEN <<>>
    ELSE LET it == items[1]
             s  == (it.s * down[1]) \div down[2]
             dh == (it.dh * down[1]) \div down[2]
             x  == margin_x - (s * it.cl) \div SCALE_DEN
             y2 == y - dh
         IN  <<[idx |-> it.idx, cl |-> it.cl, cb |-> it.cb, s |-> s,
                dh |-> dh, x |-> x, y2 |-> y2]>>
                \o place_items(Tail(items), down, y2 - gap)

(* Faulty variant of slice: idxs[:max_per_sheet], which forgets the offset. *)
slice_from_head(idxs, start, n) ==
    SubSeq(idxs, 1, IF n < Len(idxs) THEN n ELSE Len(idxs))

(* idxs[start:start + max_per_sheet] *)
slice(idxs, start, n) ==
    SubSeq(idxs, start + 1, IF start + n < Len(idxs) THEN start + n ELSE Len(idxs))

(* the body of the batch loop: one output sheet *)
compose_sheet(gkey, batch, pages, page_meta) ==
    LET items   == [k \in 1..Len(batch) |-> layout_item(batch[k], pages[batch[k] + 1])]
        total_h == SumDh(items) + gap * Max2(0, Len(batch) - 1)
        down    == down_factor(total_h)
        meta    == page_meta[batch[1]]
    IN  [kind |-> "sheet", gkey |-> gkey, batch |-> batch,
         items |-> place_items(items, down, A4_H - top_margin),
         overlay |-> make_overlay(meta[1], meta[2], meta[3], meta[4])]

(* ------------------------------------------------------------------ *)
(* annotate_pdf_web: the report                                        *)
(* ------------------------------------------------------------------ *)

IsSortedByInt(seq) ==
    \A a, b \in 1..Len(seq) : a < b => StrToInt(seq[a]) <= StrToInt(seq[b])

(* Faulty variant of sorted_by_int: sorted(list(S)), the order of the
   strings instead of the order of their values. *)
sorted_by_text(S) ==
    {seq \in [1..Cardinality(S) -> S] :
        /\ Range(seq) = S
        /\ \A a, b \in 1..Len(seq) : a < b => ~StrLess(seq[b], seq[a])}

(* sorted(list(S), key=lambda x: int(x)): the sort is stable and a set's
   order is arbitrary, so identifiers of equal value come in any order *)
sorted_by_int(S) ==
    {seq \in [1..Cardinality(S) -> S] : Range(seq) = S /\ IsSortedByInt(seq)}

(* ------------------------------------------------------------------ *)
(* annotate_pdf_web as a state machine                                 *)
(* ------------------------------------------------------------------ *)

VARIABLES
    pc,                 \* where annotate_pdf_web is
    xlsx,               \* input: the worksheet's data rows
    pdf,                \* input: the pages, each [text, sw, sh]; page i is pdf[i + 1]
    max_per_sheet,      \* input
    lookup,
    excel_numbers,
    i,                  \* the page loop's index
    groups,
    page_meta,
    page_text_cache,
    page_cands,         \* cands of each classified page
    found_in_pdf,
    pdf_candidates_all,
    ordered_keys,
    gi,                 \* the group loop's position in ordered_keys, from 1
    start,              \* the batch loop's index
    excel_missing,
    out                 \* the pages of the writer

vars ==
    <<pc, xlsx, pdf, max_per_sheet, lookup, excel_numbers, i, groups,
      page_meta, page_text_cache, page_cands, found_in_pdf,
      pdf_candidates_all, ordered_keys, gi, start, excel_missing, out>>

(* the state at the call annotate_pdf_web(pdf_bytes, xlsx_bytes, max_per_sheet) *)
Called(rows, pages, m) ==
    /\ pc = "read_excel"
    /\ xlsx = rows
    /\ pdf = pages
    /\ max_per_sheet = m
    /\ lookup = <<>>
    /\ excel_numbers = {}
    /\ i = 1
    /\ groups = <<>>
    /\ page_meta = <<>>
    /\ page_text_cache = <<>>
    /\ page_cands = <<>>
    /\ found_in_pdf = {}
    /\ pdf_candidates_all = {}
    /\ ordered_keys = <<>>
    /\ gi = 1
    /\ start = 0
    /\ excel_missing = <<>>
    /\ out = <<>>

(* lookup, excel_numbers = read_excel_lookup(...) *)
ReadExcel ==
    /\ pc = "read_excel"
    /\ LET r == read_excel_lookup(xlsx)
       IN  /\ lookup' = r.lookup
           /\ excel_numbers' = r.all_nums
    /\ pc' = "classify"
    /\ UNCHANGED <<xlsx, pdf, max_per_sheet, i, groups, page_meta,
                   page_text_cache, page_cands, found_in_pdf,
                   pdf_candidates_all, ordered_keys, gi, start,
                   excel_missing, out>>

(* one pass of: for i in range(1, len(reader.pages)) *)
ClassifyPage ==
    /\ pc = "classify"
    /\ i < Len(pdf)
    /\ LET page_text == pdf[i + 1].text
           cands     == extract_candidates(page_text)
           c         == classify_page(cands, i, lookup, excel_numbers)
       IN  /\ page_text_cache' = DictPut(page_text_cache, i, page_text)
           /\ page_cands' = DictPut(page_cands, i, cands)
           /\ found_in_pdf' = found_in_pdf \cup (Range(cands) \cap excel_numbers)
           /\ pdf_candidates_all' =
                  pdf_candidates_all \cup (Range(cands) \ excel_numbers)
           /\ groups' = groups_append(groups, c.key, i)
           /\ page_meta' = DictPut(page_meta, i, c.meta)
    /\ i' = i + 1
    /\ UNCHANGED <<pc, xlsx, pdf, max_per_sheet, lookup, excel_numbers,
                   ordered_keys, gi, start, excel_missing, out>>

(* ordered_keys = sorted(groups.keys(), key=key_sort), after the page loop *)
SortGroups ==
    /\ pc = "classify"
    /\ i >= Len(pdf)
    /\ ordered_keys' = sorted_keys(group_keys(groups), excel_numbers)
    /\ pc' = "compose"
    /\ UNCHANGED <<xlsx, pdf, max_per_sheet, lookup, excel_numbers, i, groups,
                   page_meta, page_text_cache, page_cands, found_in_pdf,
                   pdf_candidates_all, gi, start, excel_missing, out>>

(* one pass of: for start in range(0, len(idxs), max_per_sheet), inside
   for gkey in ordered_keys *)
ComposeSheet ==
    /\ pc = "compose"
    /\ gi <= Len(ordered_keys)
    /\ LET gkey  == ordered_keys[gi]
           idxs  == groups_get(groups, gkey)
           batch == slice(idxs, start, max_per_sheet)
       IN  /\ out' = Append(out, compose_sheet(gkey, batch, pdf, page_meta))
           /\ IF start + max_per_sheet < Len(idxs)
              THEN /\ start' = start + max_per_sheet
                   /\ gi' = gi
              ELSE /\ start' = 0
                   /\ gi' = gi + 1
    /\ UNCHANGED <<pc, xlsx, pdf, max_per_sheet, lookup, excel_numbers, i,
                   groups, page_meta, page_text_cache, page_cands,
                   found_in_pdf, pdf_candidates_all, ordered_keys,
                   excel_missing>>

(* excel_missing and the report pages, after the group loop; then the
   writer's pages are the result *)
Report ==
    /\ pc = "compose"
    /\ gi > Len(ordered_keys)
    /\ \E missing \in sorted_by_int(excel_numbers \ found_in_pdf) :
          /\ excel_missing' = missing
          /\ out' = IF missing # <<>>
                    THEN out \o make_summary_page(A4_H, missing)
                    ELSE out
    /\ pc' = "done"
    /\ UNCHANGED <<xlsx, pdf, max_per_sheet, lookup, excel_numbers, i, groups,
                   page_meta, page_text_cache, page_cands, found_in_pdf,
                   pdf_candidates_all, ordered_keys, gi, start>>

Next == ReadExcel \/ ClassifyPage \/ SortGroups \/ ComposeSheet \/ Report

(* ------------------------------------------------------------------ *)
(* Inputs                                                              *)
(* ------------------------------------------------------------------ *)

SeqsUpTo(S, n) == UNION {[1..k -> S] : k \in 0..n}

RECURSIVE Repeat(_, _)
Repeat(s, n) == IF n = 0 THEN <<>> ELSE s \o Repeat(s, n - 1)

MAX_PER_SHEET == 6
MaxPerSheetChoices == 1..MAX_PER_SHEET

(* worksheet rows <<ZLECENIE, ilosc palet, przewoznik, UWAGI, DOK>> *)
RowAcme == <<<<"7", "7", "8", "8", "9">>, <<"5">>, <<"A", "C", "M", "E">>, None, None>>
RowCombined ==
    <<<<"1", "2", "3", "4", "+", "5", "6", "7", "8">>, <<"2">>, <<"R", "a", "b", "e", "n">>,
      <<"p", "i", "l", "n", "e", " ", "U+0142", "a", "d", "u", "n", "e", "k">>,
      <<"J", "K">>>>
RowWithThree == <<<<"1", "2", "3", "4", "+", "3">>, <<"1">>, <<"U+0141", "U+00F3", "d", "U+017A">>, None, None>>
RowRepeat == <<<<"5", "6", "7", "8">>, <<"7">>, <<"D", "P", "D">>, None, <<"A", "B">>>>

SampleSheets ==
    {<<>>, <<RowAcme>>, <<RowCombined>>, <<RowWithThree>>,
     <<RowCombined, RowRepeat>>, <<RowAcme, RowWithThree>>}

(* page sizes: A4 upright, A5 on its side, a 20 mm label *)
TextLine == <<"P", "o", "z", "y", "c", "j", "a", " ", "1", "2", "3", "4", " ", "s", "z", "t">> \o <<"\n">>
LongText == Repeat(TextLine, 5)

PageBlank == [text |-> <<>>, sw |-> 210 * mm, sh |-> 297 * mm]
PageSalesOrder == [text |-> <<"S", "a", "l", "e", "s", " ", "O", "r", "d", "e", "r", ":", " ", "7", "7", "8", "8", "9">>, sw |-> 210 * mm, sh |-> 148 * mm]
PageTwoNumbers == [text |-> <<"9", "9", "9", "9", " ", "5", "6", "7", "8">>, sw |-> 20 * mm, sh |-> 20 * mm]
PageLong == [text |-> LongText, sw |-> 210 * mm, sh |-> 297 * mm]

SamplePages == {PageBlank, PageSalesOrder, PageTwoNumbers, PageLong}

MaxPages == 3

Init ==
    \E rows \in SampleSheets, pages \in SeqsUpTo(SamplePages, MaxPages),
       m \in MaxPerSheetChoices :
        Called(rows, pages, m)

Spec == Init /\ [][Next]_vars

(* worksheets of up to MaxRows rows whose order fields repeat and combine
   identifiers *)
OrderFields ==
    {<<"1", "2", "3", "+", "4", "5", "6">>, <<"4", "5", "6">>, <<"1", "2", "3">>, <<"4", "5", "6", ";", "1", "2", "3">>, <<" ", "1", "2", "3", " ", "/", " ", "4", "5", "6", " ">>,
     <<"1", "2", "a", "3", "+", "4", "5", "6">>, <<"+">>, <<"5", "6", "7", "8", ",", "1", "2", "3">>}

LookupRows ==
    {<<z, il, <<"D", "P", "D">>, None, None>> : z \in OrderFields, il \in {<<"1">>, <<"2">>}}

MaxRows == 2

InitLookup ==
    \E rows \in SeqsUpTo(LookupRows, MaxRows) :
        Called(rows, <<PageBlank, PageTwoNumbers, PageBlank>>, 1)

SpecLookup == InitLookup /\ [][Next]_vars

(* page texts put together from up to MaxFrags fragments *)
Fragments ==
    {<<"1", "2", "3", "4">>, <<"5">>, <<" ">>, <<"-">>, <<":">>, <<"S", "a", "l", "e", "s">>, <<"o", "r", "d", "e", "r">>}

RECURSIVE Flatten(_)
Flatten(ss) == IF ss = <<>> THEN <<>> ELSE ss[1] \o Flatten(Tail(ss))

MaxFrags == 4

FragTexts == {Flatten(fs) : fs \in SeqsUpTo(Fragments, MaxFrags)}

InitExtract ==
    \E t \in FragTexts :
        Called(<<RowCombined>>,
               <<PageBlank, [text |-> t, sw |-> 210 * mm, sh |-> 297 * mm]>>, 3)

SpecExtract == InitExtract /\ [][Next]_vars

(* documents of up to MaxGroupPages pages after the first, all of one order
   or without a number *)
MaxGroupPages == 7

InitBatch ==
    \E pages \in SeqsUpTo({PageBlank, PageTwoNumbers}, MaxGroupPages),
       m \in MaxPerSheetChoices :
        Called(<<RowCombined>>, <<PageBlank>> \o pages, m)

SpecBatch == InitBatch /\ [][Next]_vars

(* a document of LongPages pages, blank but for its second page, which
   carries the number LongPages, and a worksheet whose one order field is
   the text _NO_ORDER_<LongPages> *)
LongPages == 1000

LongDocument ==
    [k \in 1..LongPages |->
        IF k = 2
        THEN [text |-> IntToStr(LongPages), sw |-> 210 * mm, sh |-> 297 * mm]
        ELSE PageBlank]

InitLong ==
    \E m \in {1, 3} :
        Called(<< <<NO_ORDER_PREFIX \o IntToStr(LongPages), <<"1">>, <<"D", "P", "D">>,
                    None, None>> >>,
               LongDocument, m)

SpecLong == InitLong /\ [][Next]_vars

(* ------------------------------------------------------------------ *)
(* Properties                                                          *)
(* ------------------------------------------------------------------ *)

Classified == DOMAIN page_cands

PageLoopDone == pc \in {"compose", "done"}

(* how many times page p stands in the page lists of the groups *)
Occurrences(p) ==
    Cardinality({jk \in {<<j, k>> : j \in 1..Len(groups), k \in 1..Len(pdf)} :
                    /\ jk[2] <= Len(groups[jk[1]].idxs)
                    /\ groups[jk[1]].idxs[jk[2]] = p})

(* the key of the group that holds page p *)
KeyOf(p) == groups[CHOOSE j \in 1..Len(groups) : p \in Range(groups[j].idxs)].key

NoDuplicates(seq) == \A a, b \in 1..Len(seq) : a # b => seq[a] # seq[b]

FirstIndex(seq, x) == SetMin({k \in 1..Len(seq) : seq[k] = x})

SheetsOf(k) == {j \in 1..Len(out) : out[j].kind = "sheet" /\ out[j].gkey = k}

RECURSIVE SumFinalDh(_)
SumFinalDh(items) ==
    IF items = <<>> THEN 0 ELSE items[1].dh + SumFinalDh(Tail(items))

(* C1: on every output sheet the final heights of the stacked items plus the
   gaps between them are at most avail_h, so the bottom edge of the last
   item is not below the stamp region. *)
C1_BatchFitsAvailableHeight ==
    \A j \in 1..Len(out) :
        out[j].kind = "sheet" =>
            /\ SumFinalDh(out[j].items) + gap * (Len(out[j].batch) - 1) <= avail_h
            /\ out[j].items[Len(out[j].items)].y2 >= bot_stamp

(* C2, as claimed: once the page loop is over, every page index 0..N-1 of
   the source stands in the page list of exactly one group, once. *)
C2_EveryPageInOneGroup ==
    PageLoopDone => \A p \in 0..(Len(pdf) - 1) : Occurrences(p) = 1

(* C2, amended: once the page loop is over, every page index 1..N-1 stands
   in the page list of exactly one group, once, and page 0 in none. *)
C2_EveryPageButFirstInOneGroup ==
    PageLoopDone =>
        /\ \A p \in 1..(Len(pdf) - 1) : Occurrences(p) = 1
        /\ Occurrences(0) = 0
        /\ NoDuplicates(group_keys(groups))

C2_Witness ==
    /\ PageLoopDone
    /\ Len(pdf) = 3
    /\ \E j \in 1..Len(groups) : Len(groups[j].idxs) = 2

(* the bare identifiers of worksheet row r, and the record the row gives *)
RowIds(r) ==
    LET parts == order_parts(cell_text(xlsx[r][1]))
    IN  {SelectSeq(parts[k], IsDigitCh) : k \in 1..Len(parts)} \ {<<>>}

RowRecord(r) == [k \in 1..5 |-> cell_text(xlsx[r][k])]

(* C3, as claimed: after read_excel_lookup, every bare identifier of a row
   whose order field holds several resolves to one record, whose first
   field is that row's order field. *)
C3_CombinedRowResolvesToItself ==
    pc # "read_excel" =>
        \A r \in 1..Len(xlsx) :
            Cardinality(RowIds(r)) >= 2 =>
                \A id \in RowIds(r) :
                    /\ id \in DOMAIN lookup
                    /\ lookup[id][1] = cell_text(xlsx[r][1])
                    /\ \A id2 \in RowIds(r) : lookup[id2] = lookup[id]

(* C3, amended: after read_excel_lookup, every bare identifier of a row
   resolves to the record of the last row that holds it; so the identifiers
   of a row none of which a later row repeats all resolve to that row's
   record, whose first field is the row's (trimmed) order field. *)
C3_IdentifierResolvesToLastRow ==
    pc # "read_excel" =>
        /\ excel_numbers = UNION {RowIds(r) : r \in 1..Len(xlsx)}
        /\ DOMAIN lookup = excel_numbers
        /\ \A r \in 1..Len(xlsx) : \A id \in RowIds(r) :
              /\ lookup[id] =
                    RowRecord(SetMax({q \in 1..Len(xlsx) : id \in RowIds(q)}))
              /\ (\A q \in (r + 1)..Len(xlsx) : RowIds(q) \cap RowIds(r) = {})
                    => /\ lookup[id] = RowRecord(r)
                       /\ lookup[id][1] = strip(xlsx[r][1])

C3_Witness ==
    /\ pc # "read_excel"
    /\ Len(xlsx) = 2
    /\ Cardinality(RowIds(2)) >= 2
    /\ RowIds(1) \cap RowIds(2) # {}
    /\ RowRecord(1) # RowRecord(2)

(* the classified pages whose text yields no candidates *)
NoOrderPages ==
    {p \in 1..(Len(pdf) - 1) : extract_candidates(pdf[p + 1].text) = <<>>}

(* C4: a page the loop classifies whose text yields no candidates gets the
   key _NO_ORDER_<i+1>, the 'not found' header and an empty footer, and no
   other classified page of the document gets that key, whatever the
   worksheet and the other pages hold. *)
C4_NoOrderKeyIsItsPagesAlone ==
    LET r == read_excel_lookup(xlsx)
        class(p) == classify_page(extract_candidates(pdf[p + 1].text), p,
                                  r.lookup, r.all_nums)
    IN  /\ \A p \in NoOrderPages :
               LET c == class(p)
               IN  /\ c.key = NO_ORDER_PREFIX \o IntToStr(p + 1)
                   /\ c.meta[1] = HEADER_NOT_FOUND
                   /\ c.meta[2] = <<>>
        /\ \A q \in 1..(Len(pdf) - 1) :
               LET kq == class(q).key
               IN  \A p \in NoOrderPages \ {q} : class(p).key # kq

(* C5: a page with a candidate the worksheet knows is keyed by the order
   field of the record of the first such candidate, its header names that
   order field (the combined form exactly when it holds a '+') and its
   footer carries the record's pallet count and carrier; a page with
   candidates none of which is known is keyed by its first candidate, with
   the 'no data' footer and empty notes and entered-by.  The row (77889, 5,
   ACME) and the text "Sales Order: 77889" give the key 77889, the header
   of order 77889 and a footer with 5 and ACME. *)
C5_ClassificationPicksFirstKnown ==
    \A p \in Classified :
        LET cands == page_cands[p]
            known == {k \in 1..Len(cands) : cands[k] \in excel_numbers}
            meta  == page_meta[p]
        IN  /\ known # {} =>
                LET rec == lookup[cands[SetMin(known)]]
                IN  /\ KeyOf(p) = rec[1]
                    /\ meta[1] = (IF \E k \in 1..Len(rec[1]) : rec[1][k] = "+"
                                  THEN HEADER_COMBINED ELSE HEADER_ORDER)
                                    \o strip_diacritics(rec[1])
                    /\ meta[2] = <<"i", "l", "o", "s", "c", " ", "p", "a", "l", "e", "t", ":", " ">> \o strip_diacritics(rec[2])
                                    \o <<" ", "|", " ", "p", "r", "z", "e", "w", "o", "z", "n", "i", "k", ":", " ">>
                                    \o strip_diacritics(rec[3])
                    /\ meta[3] = rec[4]
                    /\ meta[4] = rec[5]
            /\ (known = {} /\ cands # <<>>) =>
                /\ KeyOf(p) = cands[1]
                /\ meta[2] = FOOTER_NO_DATA
                /\ meta[3] = <<>>
                /\ meta[4] = <<>>
            /\ (xlsx = <<RowAcme>> /\ pdf[p + 1].text = <<"S", "a", "l", "e", "s", " ", "O", "r", "d", "e", "r", ":", " ", "7", "7", "8", "8", "9">>) =>
                /\ KeyOf(p) = <<"7", "7", "8", "8", "9">>
                /\ meta[1] = <<"Z", "L", "E", "C", "E", "N", "I", "E", ":", " ", "7", "7", "8", "8", "9">>
                /\ meta[2] = <<"i", "l", "o", "s", "c", " ", "p", "a", "l", "e", "t", ":", " ", "5", " ", "|", " ", "p", "r", "z", "e", "w", "o", "z", "n", "i", "k", ":", " ", "A", "C", "M", "E">>

C5_Witness ==
    /\ xlsx = <<RowAcme>>
    /\ \E p, q \in Classified :
          /\ pdf[p + 1].text = <<"S", "a", "l", "e", "s", " ", "O", "r", "d", "e", "r", ":", " ", "7", "7", "8", "8", "9">>
          /\ page_cands[q] # <<>>
          /\ Range(page_cands[q]) \cap excel_numbers = {}

(* C6: at the end excel_missing holds exactly the worksheet's identifiers
   that are in the candidate list of no classified page, each once, in
   ascending order of their integer values. *)
C6_ExcelMissingIsKnownMinusSeen ==
    pc = "done" =>
        /\ Range(excel_missing) =
              {id \in excel_numbers :
                  \A p \in Classified : id \notin Range(page_cands[p])}
        /\ NoDuplicates(excel_missing)
        /\ \A a, b \in 1..Len(excel_missing) :
              a < b => StrToInt(excel_missing[a]) <= StrToInt(excel_missing[b])

C6_Witness ==
    /\ pc = "done"
    /\ Len(excel_missing) >= 2
    /\ found_in_pdf # {}
    /\ StrLess(excel_missing[2], excel_missing[1])

(* C7: a group of n pages is emitted as ceil(n / max_per_sheet) consecutive
   sheets; every batch but the last has max_per_sheet pages, the last has
   between 1 and max_per_sheet, and the batches in sheet order make up the
   group's page list. *)
C7_GroupSpansCeilSheets ==
    pc = "done" =>
        \A g \in 1..Len(groups) :
            LET idxs   == groups[g].idxs
                at     == SheetsOf(groups[g].key)
                first  == SetMin(at)
                last   == SetMax(at)
            IN  /\ at # {}
                /\ at = first..last
                /\ Cardinality(at) * max_per_sheet >= Len(idxs)
                /\ (Cardinality(at) - 1) * max_per_sheet < Len(idxs)
                /\ \A j \in first..(last - 1) : Len(out[j].batch) = max_per_sheet
                /\ Len(out[last].batch) \in 1..max_per_sheet
                /\ Flatten([j \in 1..Cardinality(at) |-> out[first + j - 1].batch])
                      = idxs

C7_Witness ==
    /\ pc = "done"
    /\ max_per_sheet = 3
    /\ \E g \in 1..Len(groups) :
          /\ Len(groups[g].idxs) = 7
          /\ \E j \in 1..(Len(out) - 2) :
                /\ SheetsOf(groups[g].key) = j..(j + 2)
                /\ Len(out[j].batch) = 3
                /\ Len(out[j + 1].batch) = 3
                /\ Len(out[j + 2].batch) = 1

(* C8: the candidates of a page hold no string twice, each is 4 to 8 digits
   and nothing else, they are the strings of that form among the plain,
   then spaced, then labelled matches, and they stand in the order of their
   first occurrence in that concatenation. *)
C8_CandidatesDistinctInFirstSeenOrder ==
    \A p \in Classified :
        LET cands == page_cands[p]
            cat   == candidate_matches(pdf[p + 1].text)
        IN  /\ NoDuplicates(cands)
            /\ \A k \in 1..Len(cands) :
                  /\ Len(cands[k]) \in MIN_CAND_LEN..MAX_CAND_LEN
                  /\ Range(cands[k]) \subseteq Digits
            /\ Range(cands) =
                  {c \in Range(cat) :
                      Len(c) \in MIN_CAND_LEN..MAX_CAND_LEN /\ Range(c) \subseteq Digits}
            /\ \A a, b \in 1..Len(cands) :
                  a < b => FirstIndex(cat, cands[a]) < FirstIndex(cat, cands[b])

C8_Witness ==
    \E p \in Classified :
        LET cat == candidate_matches(pdf[p + 1].text)
        IN  /\ Len(page_cands[p]) >= 2
            /\ ~NoDuplicates(cat)

(* a group is matched when its pages were keyed by a worksheet record *)
MatchedGroup(k) ==
    \E p \in Classified :
        KeyOf(p) = k /\ Range(page_cands[p]) \cap excel_numbers # {}

MinInt(k) ==
    LET runs == digit_runs(k, 1)
    IN  IF runs = <<>> THEN NO_DIGITS_PRIMARY
        ELSE SetMin({StrToInt(runs[j]) : j \in 1..Len(runs)})

(* C9: in the order the groups are emitted, every group not matched to a
   worksheet record comes before every matched group, and within each of
   the two classes the groups ascend by the least integer in the key, then
   by the key. *)
C9_UnmatchedGroupsComeFirst ==
    PageLoopDone =>
        \A a, b \in 1..Len(ordered_keys) :
            a < b =>
                LET ka == ordered_keys[a]
                    kb == ordered_keys[b]
                IN  /\ ~(MatchedGroup(ka) /\ ~MatchedGroup(kb))
                    /\ (MatchedGroup(ka) = MatchedGroup(kb)) =>
                          \/ MinInt(ka) < MinInt(kb)
                          \/ MinInt(ka) = MinInt(kb) /\ StrLess(ka, kb)

(* C10: the output always ends with the report, which shows the placeholder
   when no identifier is missing, and no report page comes before a
   stamped sheet. *)
C10_ReportAlwaysEndsOutput ==
    pc = "done" =>
        /\ out # <<>>
        /\ out[Len(out)].kind = "summary"
        /\ excel_missing = <<>> => out[Len(out)].lines = << <<"(", "b", "r", "a", "k", ")">> >>
        /\ \A a, b \in 1..Len(out) :
              (out[a].kind = "summary" /\ out[b].kind = "sheet") => b < a

====
